---- MODULE Spec2Model ----
(***************************************************************************)
(* Model of codefolder2pdf's size-constrained partitioning:                *)
(*   - split_pdf (pdf_splitter.py): the Range Refiner over the pages of a  *)
(*     finished document;                                                  *)
(*   - _split_category_files (code_collector.py): the greedy packer for    *)
(*     the files of one category;                                          *)
(*   - generate_pdf and its two branches, and the budget that upload_async *)
(*     hands to the worker.                                                *)
(* Sizes are bytes.  A budget in megabytes is kept in hundredths of a      *)
(* megabyte (39 stands for 0.39), so that the comparisons of the code are  *)
(* exact integer comparisons.                                              *)
(***************************************************************************)
EXTENDS Integers, Sequences, FiniteSets, TLC

(***************************************************************************)
(* Bounds of the model.                                                    *)
(***************************************************************************)
MaxPages == 16
MaxFiles == 3
MaxCatFiles == 1

(***************************************************************************)
(* Program constants.                                                      *)
(***************************************************************************)
BytesPerMb == 1048576
InitialRange == 10
Increment == 5
DefaultSplitMb == 39
HeaderOverhead == 1048576
MIN_FILE_CONTRIBUTION == 30720
BytesPerChar == 2
HeadingOverhead == 5000
DecodeErrorLen == 55
ReadErrorLen == 60

VARIABLES
    \* ---- split_pdf ----
    total_pages,      \* len(reader.pages)
    max_size_mb,      \* budget, in hundredths of a megabyte
    oversized_page,   \* a page that alone exceeds the budget, -1 when there is none
    sp_pc,            \* position in split_pdf
    start_page,
    end_page,
    temp_bytes,       \* os.path.getsize(temp_output) of the last candidate
    sp_current_part,
    sp_output_files,  \* parts emitted so far: [part, first, last) page ranges
    measured,         \* sizes measured in the current part: {<<end_page, bytes>>}
    grow_steps,       \* history: grow steps of the whole run
    shrink_steps,     \* history: shrink steps of the whole run
    part_grow,        \* history: grow steps of the current part
    part_shrink,      \* history: shrink steps of the current part
    monotone_sizes,   \* history: no measured size fell when pages were added
    \* ---- main of pdf_splitter.py ----
    cli_pc,           \* position in main
    input_document,   \* what is found at the input path
    printed,          \* what main printed last
    exit_status,      \* exit status of the process, -1 while it runs
    \* ---- _split_category_files ----
    files,            \* the units of the category, in arrival order
    max_size_bytes,   \* budget in bytes
    base_output,      \* the category's output path, as a sequence of tokens
    header_elements,  \* header handed to the packer (ends with the category heading)
    pk_pc,            \* position in _split_category_files
    file_index,       \* 1 + the loop variable i
    current_part,
    current_output,
    current_elements,
    estimated_size,
    processed_files,
    output_files,     \* paths of the artifacts built so far
    bins,             \* history: the bins closed so far, built or not
    rename_outcome,   \* history: "none", "renamed" or "failed" (lines 1142-1152)
    \* ---- generate_pdf ----
    code_files,       \* category -> list of units
    max_pdf_size_mb,  \* <<>> for None, <<m>> for m hundredths of a megabyte
    output_path,      \* the requested output path, as a sequence of tokens
    machine_format,
    g_pc,             \* position in generate_pdf and the function it delegates to
    g_cat,            \* index of the category block reached (1..3, 4 past the last)
    g_output_files,   \* output_files of _generate_split_pdfs_with_categories
    g_result,         \* what generate_pdf returned: a path, or a list of paths
    doc_elements,     \* elements of the single document
    doc_built,        \* "none", "built" or "failed" (line 665)
    g_bins,           \* history: the closed bins of the categories done so far
    flat_code_files,  \* <<>>, or <<fs>> when code_files is the flat list fs
    \* ---- upload_async and the worker it starts ----
    form,             \* the submitted form fields
    file_categories,  \* what collect_code_files finds in the project
    job_pc,           \* position of the job
    worker_max_pdf_size,  \* max_pdf_size handed to the worker thread
    w_output_files,   \* output_files of the worker once the structure document is added
    w_download,       \* what the worker registered in app.download_files[task_id]
    progress_queue,   \* the events with complete=True the worker has enqueued
    \* ---- the server: uploads, workers, registry and download_file ----
    current_task_id,  \* the global of line 111
    srv_pc,           \* position of each upload and of its worker
    task_id,          \* the task_id argument of each worker
    download_files,   \* app.download_files: <<>> or <<[owner, name]>> for each key
    writers,          \* history: the workers that wrote each key
    response,         \* what download_file answered last
    queue_meta,       \* history, one entry for each event of progress_queue: its worker
    announced,        \* history: the downloads announced by terminal updates
    stream_pc,        \* position of the progress_stream of each upload's observer
    received          \* history: the workers whose events each observer was sent

cliVars == <<cli_pc, input_document, printed, exit_status>>

splitterVars == <<total_pages, max_size_mb, oversized_page, sp_pc, start_page, end_page, temp_bytes,
                  sp_current_part, sp_output_files, measured,
                  grow_steps, shrink_steps, part_grow, part_shrink,
                  monotone_sizes, cliVars>>

packerVars == <<files, max_size_bytes, base_output, header_elements, pk_pc,
                file_index, current_part, current_output, current_elements,
                estimated_size, processed_files, output_files, bins, rename_outcome>>

legacyVars == <<flat_code_files>>

pdfVars == <<code_files, max_pdf_size_mb, output_path, machine_format, g_pc, g_cat,
             g_output_files, g_result, doc_elements, doc_built, g_bins, legacyVars>>

channelVars == <<queue_meta, announced, stream_pc, received>>

serverVars == <<current_task_id, srv_pc, task_id, download_files, writers, response,
                channelVars>>

jobVars == <<form, file_categories, job_pc, worker_max_pdf_size,
             w_output_files, w_download, progress_queue, serverVars>>

vars == <<splitterVars, packerVars, pdfVars, jobVars>>

\* Mutant of Categories: the categories are taken in the reverse order.
CategoriesReversed == <<"android", "ios", "regular">>

\* Lines 896-985: the categories, in the order their blocks come.
Categories == <<"regular", "ios", "android">>

NoFiles == [c \in {"regular", "ios", "android"} |-> <<>>]

\* split_pdf is not running.
SplitterIdle ==
    /\ cli_pc = "idle"
    /\ input_document = "readable"
    /\ printed = "none"
    /\ exit_status = -1
    /\ total_pages = 0
    /\ max_size_mb = 0
    /\ oversized_page = -1
    /\ sp_pc = "idle"
    /\ start_page = 0
    /\ end_page = 0
    /\ temp_bytes = 0
    /\ sp_current_part = 1
    /\ sp_output_files = <<>>
    /\ measured = {}
    /\ grow_steps = 0
    /\ shrink_steps = 0
    /\ part_grow = 0
    /\ part_shrink = 0
    /\ monotone_sizes = TRUE

\* _split_category_files has not been called.
PackerIdle ==
    /\ files = <<>>
    /\ max_size_bytes = 0
    /\ base_output = <<>>
    /\ header_elements = <<>>
    /\ pk_pc = "idle"
    /\ file_index = 1
    /\ current_part = 1
    /\ current_output = <<>>
    /\ current_elements = <<>>
    /\ estimated_size = 0
    /\ processed_files = 0
    /\ output_files = <<>>
    /\ bins = <<>>
    /\ rename_outcome = "none"

\* generate_pdf has not been called.
PdfIdle ==
    /\ flat_code_files = <<>>
    /\ code_files = NoFiles
    /\ max_pdf_size_mb = <<>>
    /\ output_path = <<>>
    /\ machine_format = FALSE
    /\ g_pc = "idle"
    /\ g_cat = 1
    /\ g_output_files = <<>>
    /\ g_result = [kind |-> "none", paths |-> <<>>]
    /\ doc_elements = <<>>
    /\ doc_built = "none"
    /\ g_bins = <<>>

\* No job has been submitted.
JobIdle ==
    /\ form = [split_pdf |-> "off", max_pdf_size |-> <<>>, output_format |-> "human",
               include_categories |-> {}]
    /\ file_categories = NoFiles
    /\ job_pc = "idle"
    /\ worker_max_pdf_size = <<>>
    /\ w_output_files = <<>>
    /\ w_download = [kind |-> "none", path |-> <<>>, members |-> <<>>]
    /\ progress_queue = <<>>

\* The two requests to upload_async, named after the identifier line 1424
\* generates for each.
Jobs == {"A", "B"}

RegistryKeys == Jobs \X {"out", "logs"}

NoResponse == [kind |-> "none", file |-> <<>>, task_id |-> "", filename |-> "",
               logs |-> FALSE]

\* Line 111 and the state of a server that has received nothing.
ServerIdle ==
    /\ current_task_id = "none"
    /\ srv_pc = [j \in Jobs |-> "idle"]
    /\ task_id = [j \in Jobs |-> "none"]
    /\ download_files = [k \in RegistryKeys |-> <<>>]
    /\ writers = [k \in RegistryKeys |-> {}]
    /\ response = NoResponse
    /\ queue_meta = <<>>
    /\ announced = {}
    /\ stream_pc = [j \in Jobs |-> "none"]
    /\ received = [j \in Jobs |-> <<>>]

Min(a, b) == IF a < b THEN a ELSE b
Max(a, b) == IF a > b THEN a ELSE b

(***************************************************************************)
(* split_pdf                                                               *)
(***************************************************************************)

\* Budgets given on the command line (--max-size), in hundredths of a MB.
SplitBudgets == {0, DefaultSplitMb, 100}

\* Sizes a written candidate can have, in bytes.
MeasuredBytes == {300000, 1048576, 1500000}

\* get_pdf_size(p) < max_size_mb, with get_pdf_size = bytes / (1024 * 1024)
SizeBelow(bytes, mb) == bytes * 100 < mb * BytesPerMb

\* get_pdf_size(p) > max_size_mb
SizeAbove(bytes, mb) == bytes * 100 > mb * BytesPerMb

\* The sizes the written range [s, e) can have: any size, but a size above
\* the budget when the range holds a page that alone exceeds the budget.
RangeSizes(s, e) ==
    IF oversized_page \in s..(e - 1)
    THEN {b \in MeasuredBytes : SizeAbove(b, max_size_mb)}
    ELSE MeasuredBytes

\* The size of the candidate [start_page, e): a range that was already
\* written in this part has the size it had; a new range has any size it
\* can have.
CandidateSizes(e) ==
    IF \E m \in measured : m[1] = e
    THEN {m[2] : m \in {n \in measured : n[1] = e}}
    ELSE RangeSizes(start_page, e)

\* Among the sizes measured in the current part, a range with more pages is
\* never smaller than one with fewer pages (what a writer that adds the
\* objects of every page produces).
MonotoneMeasured(ms) ==
    \A m, n \in ms : m[1] <= n[1] => m[2] <= n[2]

\* Mutant of GrowEnd: the range grows by one page instead of five.
GrowEndByOnePage(e) == Min(e + 1, total_pages)

\* Mutant of GrowEnd: the range grows by three pages.
GrowEndByThree(e) == Min(e + 3, total_pages)

\* Line 84: next_end = min(end_page + 5, total_pages)
GrowEnd(e) == Min(e + Increment, total_pages)

\* Line 82: temp_size < max_size_mb and end_page < total_pages
GrowCondition == SizeBelow(temp_bytes, max_size_mb) /\ end_page < total_pages

\* Mutant of ShrinkCondition: the loop retracts as long as a page is left,
\* without keeping the increment's worth of pages.
ShrinkConditionNoFloor == SizeAbove(temp_bytes, max_size_mb) /\ end_page > start_page

\* Mutant of ShrinkCondition: the loop keeps the initial range's worth of
\* pages.
ShrinkConditionFloorTen ==
    SizeAbove(temp_bytes, max_size_mb) /\ end_page > start_page + InitialRange

\* Mutant of ShrinkCondition: the shrinking loop is never entered.
ShrinkConditionNever == FALSE

\* Line 106: temp_size > max_size_mb and end_page > start_page + 5
ShrinkCondition == SizeAbove(temp_bytes, max_size_mb) /\ end_page > start_page + Increment

SplitterInit ==
    /\ cli_pc = "idle"
    /\ input_document = "readable"
    /\ printed = "none"
    /\ exit_status = -1
    /\ PackerIdle
    /\ PdfIdle
    /\ JobIdle
    /\ ServerIdle
    /\ total_pages \in 0..MaxPages
    /\ max_size_mb \in SplitBudgets
    /\ oversized_page \in -1..(total_pages - 1)
    /\ sp_pc = "loop"
    /\ start_page = 0
    /\ end_page = 0
    /\ temp_bytes = 0
    /\ sp_current_part = 1
    /\ sp_output_files = <<>>
    /\ measured = {}
    /\ grow_steps = 0
    /\ shrink_steps = 0
    /\ part_grow = 0
    /\ part_shrink = 0
    /\ monotone_sizes = TRUE

\* Lines 60-78: open a part with the initial range, write it, measure it.
StartPart ==
    /\ UNCHANGED <<packerVars, pdfVars, jobVars>>
    /\ UNCHANGED cliVars
    /\ sp_pc = "loop"
    /\ start_page < total_pages
    /\ LET e == Min(start_page + InitialRange, total_pages) IN
       \E b \in RangeSizes(start_page, e) :
          /\ end_page' = e
          /\ temp_bytes' = b
          /\ measured' = {<<e, b>>}
    /\ sp_pc' = "growing"
    /\ UNCHANGED monotone_sizes
    /\ part_grow' = 0
    /\ part_shrink' = 0
    /\ UNCHANGED <<total_pages, max_size_mb, oversized_page, start_page, sp_current_part,
                   sp_output_files, grow_steps, shrink_steps>>

\* Lines 82-103: one iteration of the growing loop.
Grow ==
    /\ UNCHANGED <<packerVars, pdfVars, jobVars>>
    /\ UNCHANGED cliVars
    /\ sp_pc = "growing"
    /\ GrowCondition
    /\ LET next_end == GrowEnd(end_page) IN
       \E b \in CandidateSizes(next_end) :
          /\ end_page' = next_end
          /\ temp_bytes' = b
          /\ measured' = measured \cup {<<next_end, b>>}
          /\ monotone_sizes' =
                (monotone_sizes /\ MonotoneMeasured(measured \cup {<<next_end, b>>}))
    /\ grow_steps' = grow_steps + 1
    /\ part_grow' = part_grow + 1
    /\ UNCHANGED <<total_pages, max_size_mb, oversized_page, sp_pc, start_page, sp_current_part,
                   sp_output_files, shrink_steps, part_shrink>>

\* Lines 106-121: one iteration of the shrinking loop (entered once the
\* growing loop has ended).
Shrink ==
    /\ UNCHANGED <<packerVars, pdfVars, jobVars>>
    /\ UNCHANGED cliVars
    /\ \/ sp_pc = "growing" /\ ~GrowCondition
       \/ sp_pc = "shrinking"
    /\ ShrinkCondition
    /\ LET e == end_page - Increment IN
       \E b \in CandidateSizes(e) :
          /\ end_page' = e
          /\ temp_bytes' = b
          /\ measured' = measured \cup {<<e, b>>}
          /\ monotone_sizes' =
                (monotone_sizes /\ MonotoneMeasured(measured \cup {<<e, b>>}))
    /\ sp_pc' = "shrinking"
    /\ shrink_steps' = shrink_steps + 1
    /\ part_shrink' = part_shrink + 1
    /\ UNCHANGED <<total_pages, max_size_mb, oversized_page, start_page, sp_current_part,
                   sp_output_files, grow_steps, part_grow>>

\* Lines 123-132: the candidate becomes the part; move to the next part.
Settle ==
    /\ UNCHANGED <<packerVars, pdfVars, jobVars>>
    /\ UNCHANGED cliVars
    /\ \/ sp_pc = "growing" /\ ~GrowCondition
       \/ sp_pc = "shrinking"
    /\ ~ShrinkCondition
    /\ sp_output_files' = Append(sp_output_files,
          [part |-> sp_current_part, first |-> start_page, last |-> end_page,
           bytes |-> temp_bytes])
    /\ start_page' = end_page
    /\ sp_current_part' = sp_current_part + 1
    /\ sp_pc' = "loop"
    /\ UNCHANGED <<total_pages, max_size_mb, oversized_page, end_page, temp_bytes, measured,
                   grow_steps, shrink_steps, part_grow, part_shrink, monotone_sizes>>

\* Lines 134-135: the loop condition fails, the parts are returned.
SplitReturn ==
    /\ UNCHANGED <<packerVars, pdfVars, jobVars>>
    /\ UNCHANGED cliVars
    /\ sp_pc = "loop"
    /\ ~(start_page < total_pages)
    /\ sp_pc' = "done"
    /\ UNCHANGED <<total_pages, max_size_mb, oversized_page, start_page, end_page, temp_bytes,
                   sp_current_part, sp_output_files, measured,
                   grow_steps, shrink_steps, part_grow, part_shrink, monotone_sizes>>

\* Writing or measuring a candidate (lines 74-78, 98-103, 117-121) or renaming
\* it (line 125) raises: split_pdf has no handler, the exception leaves it and
\* no list of parts is returned.
WriteFails ==
    /\ UNCHANGED <<packerVars, pdfVars, jobVars>>
    /\ UNCHANGED cliVars
    /\ \/ sp_pc = "loop" /\ start_page < total_pages
       \/ sp_pc \in {"growing", "shrinking"}
    /\ sp_pc' = "raised"
    /\ UNCHANGED <<total_pages, max_size_mb, oversized_page, start_page, end_page, temp_bytes,
                   sp_current_part, sp_output_files, measured,
                   grow_steps, shrink_steps, part_grow, part_shrink, monotone_sizes>>

SplitterNext == StartPart \/ Grow \/ Shrink \/ Settle \/ SplitReturn \/ WriteFails

SplitterEnded == sp_pc \in {"done", "raised"}

SplitterSpec == SplitterInit /\ [][SplitterNext]_vars

\* split_pdf runs in one thread that is never blocked: a step that can be
\* taken is taken.
FairSplitterSpec == SplitterSpec /\ WF_vars(SplitterNext)

\* The document of the example scenario of the Range Refiner: 23 pages.
ExamplePages == 23

\* split_pdf called on a document of 23 pages.
ExampleInit ==
    /\ cli_pc = "idle"
    /\ input_document = "readable"
    /\ printed = "none"
    /\ exit_status = -1
    /\ PackerIdle
    /\ PdfIdle
    /\ JobIdle
    /\ ServerIdle
    /\ total_pages = ExamplePages
    /\ max_size_mb \in SplitBudgets
    /\ oversized_page \in -1..(total_pages - 1)
    /\ sp_pc = "loop"
    /\ start_page = 0
    /\ end_page = 0
    /\ temp_bytes = 0
    /\ sp_current_part = 1
    /\ sp_output_files = <<>>
    /\ measured = {}
    /\ grow_steps = 0
    /\ shrink_steps = 0
    /\ part_grow = 0
    /\ part_shrink = 0
    /\ monotone_sizes = TRUE

ExampleSpec == ExampleInit /\ [][SplitterNext]_vars

(***************************************************************************)
(* main of pdf_splitter.py                                                 *)
(***************************************************************************)

\* What main finds at the path given on the command line.
InputDocuments == {"missing", "unreadable", "readable"}

\* The exit status of a process that has not ended.
NotExited == -1

CliInit ==
    /\ PackerIdle
    /\ PdfIdle
    /\ JobIdle
    /\ ServerIdle
    /\ total_pages \in 0..MaxPages
    /\ max_size_mb \in SplitBudgets
    /\ oversized_page \in -1..(total_pages - 1)
    /\ sp_pc = "idle"
    /\ start_page = 0
    /\ end_page = 0
    /\ temp_bytes = 0
    /\ sp_current_part = 1
    /\ sp_output_files = <<>>
    /\ measured = {}
    /\ grow_steps = 0
    /\ shrink_steps = 0
    /\ part_grow = 0
    /\ part_shrink = 0
    /\ monotone_sizes = TRUE
    /\ cli_pc = "main"
    /\ input_document \in InputDocuments
    /\ printed = "none"
    /\ exit_status = NotExited

SplitterRunUnchanged ==
    UNCHANGED <<total_pages, max_size_mb, oversized_page, start_page, end_page, temp_bytes,
                sp_current_part, sp_output_files, measured,
                grow_steps, shrink_steps, part_grow, part_shrink, monotone_sizes>>

\* Lines 146, 37-39 and 47-51: split_pdf returns [] for a path that does not
\* exist or that PdfReader cannot read.
MainSplitRejected ==
    /\ cli_pc = "main"
    /\ input_document # "readable"
    /\ cli_pc' = "in_split"
    /\ sp_pc' = "done"
    /\ SplitterRunUnchanged
    /\ UNCHANGED <<input_document, printed, exit_status>>
    /\ UNCHANGED <<packerVars, pdfVars, jobVars>>

\* Lines 146, 53-58: split_pdf reads the document and enters its loop.
MainSplitCalled ==
    /\ cli_pc = "main"
    /\ input_document = "readable"
    /\ cli_pc' = "in_split"
    /\ sp_pc' = "loop"
    /\ SplitterRunUnchanged
    /\ UNCHANGED <<input_document, printed, exit_status>>
    /\ UNCHANGED <<packerVars, pdfVars, jobVars>>

\* Lines 148-158: main prints the summary or the failure message and returns;
\* nothing sets an exit status, so the interpreter ends with status 0.
MainSummary ==
    /\ cli_pc = "in_split"
    /\ sp_pc = "done"
    /\ cli_pc' = "exited"
    /\ printed' = IF sp_output_files # <<>> THEN "Split complete" ELSE "Failed to split"
    /\ exit_status' = 0
    /\ sp_pc' = sp_pc
    /\ SplitterRunUnchanged
    /\ UNCHANGED input_document
    /\ UNCHANGED <<packerVars, pdfVars, jobVars>>

\* Lines 146, 157-158: an exception that leaves split_pdf leaves main too; the
\* interpreter prints the traceback and ends with status 1.
MainRaised ==
    /\ cli_pc = "in_split"
    /\ sp_pc = "raised"
    /\ cli_pc' = "exited"
    /\ printed' = "Traceback"
    /\ exit_status' = 1
    /\ sp_pc' = sp_pc
    /\ SplitterRunUnchanged
    /\ UNCHANGED input_document
    /\ UNCHANGED <<packerVars, pdfVars, jobVars>>

CliNext ==
    \/ MainSplitRejected
    \/ MainSplitCalled
    \/ StartPart
    \/ Grow
    \/ Shrink
    \/ Settle
    \/ SplitReturn
    \/ WriteFails
    \/ MainSummary
    \/ MainRaised

CliSpec == CliInit /\ [][CliNext]_vars

(***************************************************************************)
(* Claims about split_pdf                                                  *)
(***************************************************************************)

PartsContiguous ==
    \A i \in 1..Len(sp_output_files) :
       /\ sp_output_files[i].part = i
       /\ sp_output_files[i].first < sp_output_files[i].last
       /\ sp_output_files[i].first =
             (IF i = 1 THEN 0 ELSE sp_output_files[i - 1].last)

LastCovered ==
    IF sp_output_files = <<>> THEN 0
    ELSE sp_output_files[Len(sp_output_files)].last

\* C3: the parts split_pdf emits are non-empty page ranges [first, last), the
\* first starting at page 0, each starting where the previous one ended, and
\* when split_pdf returns the last one ends at total_pages: the parts cover
\* every page exactly once.
C3_RefinerCoverage ==
    /\ PartsContiguous
    /\ LastCovered = start_page
    /\ sp_pc = "done" => LastCovered = total_pages

\* C3 witness: a finished run with at least three parts, one of which was
\* reached by growing and shrinking.
C3_Witness ==
    /\ sp_pc = "done"
    /\ Len(sp_output_files) >= 3
    /\ grow_steps > 0
    /\ shrink_steps > 0

\* C4 as stated: over the whole run the grow steps plus the shrink steps are
\* at most total_pages / 5.
C4_StepsWithinPagesOverIncrement ==
    (grow_steps + shrink_steps) * Increment <= total_pages

\* The bound of C4 for the runs whose measured sizes never fall when pages
\* are added to a candidate range.
StepsBoundIfMonotone ==
    monotone_sizes => (grow_steps + shrink_steps) * Increment <= total_pages

\* C4 amended: for every document, budget and assignment of sizes split_pdf
\* ends (it returns, or a failed write raises); the grow steps plus the shrink
\* steps are at most total_pages / 5 in the runs where no candidate range
\* measures smaller than a range of fewer pages of the same part, and can
\* exceed it otherwise.
C4_RefinerTerminates ==
    /\ []StepsBoundIfMonotone
    /\ <>SplitterEnded

\* C4 witness: a finished run with monotone sizes that grew and shrank, one
\* step short of exceeding the bound.
C4_Witness ==
    /\ sp_pc = "done"
    /\ monotone_sizes
    /\ grow_steps >= 1
    /\ shrink_steps >= 2
    /\ (grow_steps + shrink_steps + 1) * Increment > total_pages

(***************************************************************************)
(* Paths.  A path is a sequence of tokens; ".pdf" is the extension token   *)
(* and "_part<n>" a part suffix.                                           *)
(***************************************************************************)

PartToken(n) == "_part" \o ToString(n)

\* str.replace('.pdf', '_part<n>.pdf'): every ".pdf" of the path is replaced.
RECURSIVE ReplacePdf(_, _)
ReplacePdf(path, n) ==
    IF path = <<>> THEN <<>>
    ELSE (IF Head(path) = ".pdf" THEN <<PartToken(n), ".pdf">> ELSE <<Head(path)>>)
         \o ReplacePdf(Tail(path), n)

\* Lines 1013, 1078: base_output.replace('.pdf', f'_part{current_part}.pdf')
PartPath(base, n) == ReplacePdf(base, n)

\* '_part<n>.pdf' in path
ContainsPart(path, n) ==
    \E k \in 1..(Len(path) - 1) : path[k] = PartToken(n) /\ path[k + 1] = ".pdf"

(***************************************************************************)
(* _split_category_files                                                   *)
(***************************************************************************)

\* What a file of the project can be: the length of its text, whether it can
\* be read, and whether building its elements raises ("handled": the handler
\* of line 1113 adds its warning; "escapes": the handler raises as well and
\* the exception leaves the function).
FileKinds ==
    { [chars |-> 0,      read |-> "ok",       raises |-> "no"],
      [chars |-> 128572, read |-> "ok",       raises |-> "no"],
      [chars |-> 500000, read |-> "ok",       raises |-> "no"],
      [chars |-> 0,      read |-> "io_error", raises |-> "no"],
      [chars |-> 0,      read |-> "ok",       raises |-> "handled"],
      [chars |-> 0,      read |-> "ok",       raises |-> "escapes"] }

\* Budgets, in hundredths of a megabyte.
PositiveBudgetsMb == {DefaultSplitMb, 106, 125, 200}

\* Line 885: max_size_bytes = max_pdf_size_mb * 1048576.  The product is
\* compared with integers only, so its integer part decides.
MbToBytes(mb) == (mb * BytesPerMb) \div 100

PositiveBudgets == {MbToBytes(mb) : mb \in PositiveBudgetsMb}

\* The units of category cat made of the kinds ks, named by their position.
MakeFiles(cat, ks) ==
    [k \in 1..Len(ks) |->
        [cat |-> cat, path |-> k, chars |-> ks[k].chars,
         read |-> ks[k].read, raises |-> ks[k].raises]]

FileLists(cat, maxLen, kinds) ==
    {MakeFiles(cat, ks) : ks \in UNION {[1..n -> kinds] : n \in 0..maxLen}}

\* Lines 1042-1049: the text that is estimated; an unreadable file is replaced
\* by a sentinel text.
ContentLen(u) ==
    CASE u.read = "ok" -> u.chars
      [] u.read = "decode_error" -> DecodeErrorLen
      [] OTHER -> ReadErrorLen

\* Mutant of FileContribution: no minimum.
FileContributionNoFloor(u) == ContentLen(u) * BytesPerChar + HeadingOverhead

\* Line 1053: max(len(content) * 2 + 5000, MIN_FILE_CONTRIBUTION)
FileContribution(u) ==
    Max(ContentLen(u) * BytesPerChar + HeadingOverhead, MIN_FILE_CONTRIBUTION)

Element(kind, cat, ref) == [kind |-> kind, cat |-> cat, ref |-> ref]

\* Lines 905-916: the header of a category: title, format line, timestamp and
\* the category heading.
CategoryHeader(cat) ==
    <<Element("title", cat, 0), Element("format", cat, 0),
      Element("timestamp", cat, 0), Element("category", cat, 0)>>

\* Mutant of StartElements: the elements of the closed part are kept.
StartElementsKeepsOld(hdr, cat, part) == current_elements

\* Lines 1018-1021, 1083-1084: the header and the part banner.
StartElements(hdr, cat, part) == hdr \o <<Element("banner", cat, part)>>

\* Mutant of HasContent: a part with its banner alone counts as content.
HasContentOffByOne(elems, hdr) == Len(elems) > Len(hdr)

\* Lines 1056, 1121: len(current_elements) > len(header_elements) + 1
HasContent(elems, hdr) == Len(elems) > Len(hdr) + 1

\* Mutant of SplitNeeded: the size of the file about to be added is left out.
SplitNeededWithoutFile(est, fc, budget, elems, hdr) ==
    est > budget /\ HasContent(elems, hdr)

\* Mutant of SplitNeeded: the comparison is inverted.
SplitNeededInverted(est, fc, budget, elems, hdr) ==
    est + fc < budget /\ HasContent(elems, hdr)

\* Line 1056: estimated_size + file_contribution > max_size_bytes and the
\* current part has content.
SplitNeeded(est, fc, budget, elems, hdr) ==
    est + fc > budget /\ HasContent(elems, hdr)

\* Mutant of NextPart: the part number is not advanced.
NextPartStays(part) == part

\* Line 1077: current_part += 1
NextPart(part) == part + 1

\* The entries of a part: its elements after the header and the banner.
Entries(elems, hdr) == SubSeq(elems, Len(hdr) + 2, Len(elems))

\* The record of a closed bin.
ClosedBin(part, elems, hdr, cost, built) ==
    [part |-> part, entries |-> Entries(elems, hdr), cost |-> cost, built |-> built]

\* A direct call of _split_category_files(base, header, fs, ..., budget).
PackerInit ==
    /\ SplitterIdle
    /\ PdfIdle
    /\ JobIdle
    /\ ServerIdle
    /\ files \in FileLists("regular", MaxFiles, FileKinds)
    /\ max_size_bytes \in PositiveBudgets
    /\ base_output = <<"out", "_regular", ".pdf">>
    /\ header_elements = CategoryHeader("regular")
    /\ pk_pc = "entry"
    /\ file_index = 1
    /\ current_part = 1
    /\ current_output = <<>>
    /\ current_elements = <<>>
    /\ estimated_size = 0
    /\ processed_files = 0
    /\ output_files = <<>>
    /\ bins = <<>>
    /\ rename_outcome = "none"

\* The category of the call: the one its header ends with.
CallCategory == header_elements[Len(header_elements)].cat

\* Lines 1011-1031: the set-up of _split_category_files.
PackerEnter ==
    /\ pk_pc = "entry"
    /\ pk_pc' = "loop"
    /\ file_index' = 1
    /\ current_part' = 1
    /\ current_output' = PartPath(base_output, 1)
    /\ current_elements' = StartElements(header_elements, CallCategory, 1)
    /\ estimated_size' = HeaderOverhead
    /\ processed_files' = 0
    /\ output_files' = <<>>
    /\ bins' = <<>>
    /\ rename_outcome' = "none"
    /\ UNCHANGED <<files, max_size_bytes, base_output, header_elements>>
    /\ UNCHANGED <<splitterVars, pdfVars, jobVars>>

\* Lines 1033-1037: no files, nothing is built.
PackerEmpty ==
    /\ pk_pc = "loop"
    /\ Len(files) = 0
    /\ pk_pc' = "returned"
    /\ UNCHANGED <<files, max_size_bytes, base_output, header_elements, file_index,
                   current_part, current_output, current_elements, estimated_size,
                   processed_files, output_files, bins, rename_outcome>>
    /\ UNCHANGED <<splitterVars, pdfVars, jobVars>>

\* Lines 1039-1118: one iteration of the loop over the files.  If the file
\* does not fit and the part has content, the part is built (the build may
\* fail) and a new part is opened; then the file is added, or its warning
\* when building its elements raised.
ProcessFile ==
    /\ pk_pc = "loop"
    /\ file_index <= Len(files)
    /\ LET u     == files[file_index]
           cat   == u.cat
           fc    == FileContribution(u)
           split == SplitNeeded(estimated_size, fc, max_size_bytes,
                                current_elements, header_elements)
           part1 == IF split THEN NextPart(current_part) ELSE current_part
           elems1 == IF split THEN StartElements(header_elements, cat, part1)
                     ELSE current_elements
           est1  == IF split THEN HeaderOverhead ELSE estimated_size
       IN
       /\ \E built \in (IF split THEN BOOLEAN ELSE {TRUE}) :
             /\ output_files' = IF split /\ built
                                THEN Append(output_files, current_output)
                                ELSE output_files
             /\ bins' = IF split
                        THEN Append(bins, ClosedBin(current_part, current_elements,
                                                    header_elements, estimated_size, built))
                        ELSE bins
       /\ current_part' = part1
       /\ current_output' = IF split THEN PartPath(base_output, part1) ELSE current_output
       /\ CASE u.raises = "no" ->
                 /\ current_elements' = Append(elems1, Element("file", cat, u.path))
                 /\ estimated_size' = est1 + fc
                 /\ processed_files' = processed_files + 1
                 /\ pk_pc' = "loop"
            [] u.raises = "handled" ->
                 /\ current_elements' = Append(elems1, Element("warning", cat, u.path))
                 /\ estimated_size' = est1
                 /\ processed_files' = processed_files
                 /\ pk_pc' = "loop"
            [] OTHER ->
                 /\ current_elements' = elems1
                 /\ estimated_size' = est1
                 /\ processed_files' = processed_files
                 /\ pk_pc' = "raised"
    /\ file_index' = file_index + 1
    /\ UNCHANGED <<files, max_size_bytes, base_output, header_elements, rename_outcome>>
    /\ UNCHANGED <<splitterVars, pdfVars, jobVars>>

\* Lines 1120-1160: after the loop the last part is built if it has content,
\* a single part named "_part1" is renamed to the base name (the rename may
\* fail), and the list of artifacts is returned.
PackerFinish ==
    /\ pk_pc = "loop"
    /\ Len(files) > 0
    /\ file_index > Len(files)
    /\ LET final == HasContent(current_elements, header_elements) IN
       \E built \in (IF final THEN BOOLEAN ELSE {TRUE}) :
          LET out1 == IF final /\ built THEN Append(output_files, current_output)
                      ELSE output_files
              single == Len(out1) = 1 /\ ContainsPart(out1[1], 1)
          IN
          /\ bins' = IF final
                     THEN Append(bins, ClosedBin(current_part, current_elements,
                                                 header_elements, estimated_size, built))
                     ELSE bins
          /\ \E renamed \in (IF single THEN BOOLEAN ELSE {TRUE}) :
                /\ output_files' = IF single /\ renamed THEN <<base_output>> ELSE out1
                /\ rename_outcome' = IF ~single THEN "none"
                                     ELSE IF renamed THEN "renamed" ELSE "failed"
    /\ pk_pc' = "returned"
    /\ UNCHANGED <<files, max_size_bytes, base_output, header_elements, file_index,
                   current_part, current_output, current_elements, estimated_size,
                   processed_files>>
    /\ UNCHANGED <<splitterVars, pdfVars, jobVars>>

PackerNext == PackerEnter \/ PackerEmpty \/ ProcessFile \/ PackerFinish

PackerSpec == PackerInit /\ [][PackerNext]_vars

(***************************************************************************)
(* The packer as a function of its input: the number of bins it closes.    *)
(***************************************************************************)

\* The loop of lines 1039-1118 from file k on, followed by the final part of
\* lines 1120-1121, for files none of which makes the function raise; closed
\* is the number of bins closed so far.
RECURSIVE CountBinsFrom(_, _, _, _, _, _, _)
CountBinsFrom(fs, k, hdr, elems, est, closed, budget) ==
    IF k > Len(fs)
    THEN closed + (IF HasContent(elems, hdr) THEN 1 ELSE 0)
    ELSE LET u      == fs[k]
             fc     == FileContribution(u)
             split  == SplitNeeded(est, fc, budget, elems, hdr)
             elems1 == IF split THEN StartElements(hdr, u.cat, closed + 2) ELSE elems
             est1   == IF split THEN HeaderOverhead ELSE est
             added  == u.raises = "no"
         IN CountBinsFrom(fs, k + 1, hdr,
                          Append(elems1, Element(IF added THEN "file" ELSE "warning",
                                                 u.cat, u.path)),
                          IF added THEN est1 + fc ELSE est1,
                          IF split THEN closed + 1 ELSE closed,
                          budget)

BinsProduced(fs, hdr, budget) ==
    IF fs = <<>> THEN 0
    ELSE CountBinsFrom(fs, 1, hdr, StartElements(hdr, fs[1].cat, 1),
                       HeaderOverhead, 0, budget)

(***************************************************************************)
(* Claims about _split_category_files                                      *)
(***************************************************************************)

RECURSIVE ConcatEntries(_)
ConcatEntries(bs) ==
    IF bs = <<>> THEN <<>> ELSE Head(bs).entries \o ConcatEntries(Tail(bs))

IsFile(e) == e.kind = "file"

IsWarning(e) == e.kind = "warning"

Units(bin) == SelectSeq(bin.entries, IsFile)

\* The entries put into bins so far: those of the closed bins, then those of
\* the open part.
EntriesSoFar ==
    ConcatEntries(bins) \o
    (IF pk_pc = "loop" THEN Entries(current_elements, header_elements) ELSE <<>>)

\* C1 as stated: when the packer returns, the units of its bins, in bin order,
\* are exactly the input list: every unit is in one bin, in arrival order.
C1_EveryUnitInOneBin ==
    pk_pc = "returned" =>
       LET us == SelectSeq(ConcatEntries(bins), IsFile) IN
       /\ Len(us) = Len(files)
       /\ \A k \in 1..Len(us) : us[k].ref = files[k].path

\* C1 amended: the entries of the bins, in bin order, are one entry per input
\* unit in arrival order: the unit itself, or a warning notice in its place
\* when building its elements raised (handler of line 1113).  No unit is
\* duplicated or reordered, and only the units that raised are missing.
C1_PackerCoverage ==
    pk_pc \in {"loop", "returned"} =>
       LET es == EntriesSoFar
           n  == IF pk_pc = "returned" THEN Len(files) ELSE file_index - 1
       IN
       /\ Len(es) = n
       /\ \A k \in 1..n :
             /\ es[k].ref = files[k].path
             /\ es[k].cat = files[k].cat
             /\ IsFile(es[k]) <=> files[k].raises = "no"
             /\ IsWarning(es[k]) <=> files[k].raises # "no"

\* C1 witness: a returned run with three bins holding units and a warning.
C1_Witness ==
    /\ pk_pc = "returned"
    /\ Len(bins) >= 2
    /\ Len(SelectSeq(ConcatEntries(bins), IsFile)) >= 2
    /\ \E k \in 1..Len(files) : files[k].raises = "handled"

RECURSIVE SumContributions(_)
SumContributions(es) ==
    IF es = <<>> THEN 0
    ELSE FileContribution(files[Head(es).ref]) + SumContributions(Tail(es))

ComparedBudgets == PositiveBudgets \cup {MbToBytes(mb) : mb \in {103, 110, 150, 300}}

\* C5: for the files of a run that returned, the packer closes as many bins as
\* the function BinsProduced says, and for budgets b1 <= b2 it produces no more
\* bins with b2 than with b1.
C5_PackerMonotone ==
    pk_pc = "returned" =>
       /\ Len(bins) = BinsProduced(files, header_elements, max_size_bytes)
       /\ \A b1, b2 \in ComparedBudgets :
             b1 <= b2 => BinsProduced(files, header_elements, b2)
                           <= BinsProduced(files, header_elements, b1)

\* C5 witness: a returned run of several bins, with a larger budget that gives
\* fewer bins.
C5_Witness ==
    /\ pk_pc = "returned"
    /\ Len(bins) >= 3
    /\ \E b \in ComparedBudgets :
          /\ b > max_size_bytes
          /\ BinsProduced(files, header_elements, b) < Len(bins)
          /\ BinsProduced(files, header_elements, b) >= 2

\* C8: when the packer returns exactly one artifact and no rename failed, its
\* path is the category's base name, without part suffix.
C8_SinglePartHasNoSuffix ==
    (pk_pc = "returned" /\ Len(output_files) = 1 /\ rename_outcome # "failed")
       => output_files[1] = base_output

BuiltBin(b) == b.built

\* The paths of the bins whose build succeeded, in order.
BuiltPaths ==
    LET bs == SelectSeq(bins, BuiltBin) IN
    [k \in 1..Len(bs) |-> PartPath(base_output, bs[k].part)]

\* C10 as stated: when the packer returns more than one artifact, the k-th
\* artifact carries part number k.
C10_PartNumbersContiguous ==
    (pk_pc = "returned" /\ Len(output_files) > 1)
       => \A k \in 1..Len(output_files) : ContainsPart(output_files[k], k)

\* C10 amended: the bins the packer closes are numbered 1, 2, ..., k without
\* gap, and the artifacts returned are those of the bins whose build
\* succeeded, each under the number of its bin, in increasing order: a bin
\* whose build failed leaves a gap in the numbers of the artifacts.
C10_PartNumbering ==
    /\ \A k \in 1..Len(bins) : bins[k].part = k
    /\ pk_pc = "loop" => current_part = Len(bins) + 1
    /\ (pk_pc = "returned" /\ Len(output_files) > 1) => output_files = BuiltPaths

\* C10 witness: a returned run with two artifacts and a failed bin between
\* them.
C10_Witness ==
    /\ pk_pc = "returned"
    /\ Len(output_files) = 2
    /\ Len(bins) = 3
    /\ ~bins[2].built

(***************************************************************************)
(* generate_pdf, generate_single_document and                              *)
(* _generate_split_pdfs_with_categories                                    *)
(***************************************************************************)

\* The kinds of files used when generate_pdf is called.
PdfKinds ==
    { [chars |-> 0, read |-> "ok",       raises |-> "no"],
      [chars |-> 0, read |-> "io_error", raises |-> "no"],
      [chars |-> 0, read |-> "ok",       raises |-> "escapes"] }

\* Budgets generate_pdf is called with: None, or hundredths of a megabyte.
PdfBudgets == {<<>>, <<0>>, <<-50>>, <<DefaultSplitMb>>, <<200>>}

NoResult == [kind |-> "none", paths |-> <<>>]

\* Lines 1260-1263: an update with complete=True; download_url is <<>> when
\* the update has none, else the file name it offers.
CompleteEvent(message, url) ==
    [message |-> message, complete |-> TRUE, download_url |-> url]

\* generate_pdf(output_path, root, code_files, max_pdf_size_mb = budget,
\*              machine_format = mf) is called.
PdfInit ==
    /\ flat_code_files = <<>>
    /\ SplitterIdle
    /\ PackerIdle
    /\ JobIdle
    /\ ServerIdle
    /\ code_files \in [regular : FileLists("regular", MaxCatFiles, PdfKinds),
                       ios     : FileLists("ios", MaxCatFiles, PdfKinds),
                       android : FileLists("android", MaxCatFiles, PdfKinds)]
    /\ max_pdf_size_mb \in PdfBudgets
    /\ output_path = <<"proj", "_code", ".pdf">>
    /\ machine_format \in BOOLEAN
    /\ g_pc = "called"
    /\ g_cat = 1
    /\ g_output_files = <<>>
    /\ g_result = NoResult
    /\ doc_elements = <<>>
    /\ doc_built = "none"
    /\ g_bins = <<>>

\* Mutant of NoSplit: only an absent budget selects the single document.
NoSplitOnlyNone(m) == m = <<>>

\* Line 515: max_pdf_size_mb is None or max_pdf_size_mb <= 0
NoSplit(m) == Len(m) = 0 \/ m[1] <= 0

\* Lines 488-512: the header of the document.
DocumentHeader ==
    <<Element("title", "all", 0), Element("format", "all", 0),
      Element("timestamp", "all", 0), Element("structure_heading", "all", 0),
      Element("structure", "all", 0)>>

\* Lines 514-522: the branch of generate_pdf.
GeneratePdf ==
    /\ g_pc = "called"
    /\ g_pc' = IF NoSplit(max_pdf_size_mb) THEN "single" ELSE "split"
    /\ g_cat' = 1
    /\ g_output_files' = <<>>
    /\ UNCHANGED legacyVars
    /\ UNCHANGED <<code_files, max_pdf_size_mb, output_path, machine_format, g_result,
                   doc_elements, doc_built, g_bins>>
    /\ UNCHANGED <<splitterVars, packerVars, jobVars>>

\* Lines 555-574: a file of the single document: its heading and text, or
\* the notice of the handler when reading it or building its elements raised.
SingleEntry(u) ==
    IF u.read = "ok" /\ u.raises = "no"
    THEN Element("file", u.cat, u.path)
    ELSE Element("warning", u.cat, u.path)

\* Lines 549-630: the block of one category of the single document.
SingleCategory(cat, fs) ==
    IF fs = <<>> THEN <<>>
    ELSE (IF cat = "regular" THEN <<>> ELSE <<Element("pagebreak", cat, 0)>>)
         \o <<Element("category", cat, 0)>>
         \o [k \in 1..Len(fs) |-> SingleEntry(fs[k])]

\* The handler of a file raises as well.
Escapes(fs) == \E k \in 1..Len(fs) : fs[k].raises = "escapes"

\* Lines 524-686: generate_single_document.  The elements of all categories
\* are collected and the document is built; the path is returned whether or
\* not the build succeeded (line 686).  When the build fails and a
\* progress_callback was given (the worker gives add_progress_update), an
\* update with complete=True is sent (line 683).
GenerateSingleDocument ==
    /\ g_pc = "single"
    /\ IF \E c \in DOMAIN code_files : Escapes(code_files[c])
       THEN /\ g_pc' = "raised"
            /\ UNCHANGED <<doc_elements, doc_built, g_result, progress_queue>>
       ELSE /\ g_pc' = "returned"
            /\ doc_elements' = DocumentHeader
                               \o SingleCategory("regular", code_files.regular)
                               \o SingleCategory("ios", code_files.ios)
                               \o SingleCategory("android", code_files.android)
            /\ \E built \in BOOLEAN :
                  /\ doc_built' = IF built THEN "built" ELSE "failed"
                  /\ progress_queue' =
                        IF ~built /\ job_pc = "generating"
                        THEN Append(progress_queue,
                                    CompleteEvent("PDF generation failed", <<>>))
                        ELSE progress_queue
            /\ g_result' = [kind |-> "path", paths |-> <<output_path>>]
    /\ UNCHANGED legacyVars
    /\ UNCHANGED <<code_files, max_pdf_size_mb, output_path, machine_format, g_cat,
                   g_output_files, g_bins>>
    /\ UNCHANGED <<form, file_categories, job_pc, worker_max_pdf_size, w_output_files,
                   w_download, serverVars>>
    /\ UNCHANGED <<splitterVars, packerVars>>

\* Line 893: os.path.splitext(output_path)[0]
BaseName(path) == SubSeq(path, 1, Len(path) - 1)

\* Line 893: os.path.splitext(output_path)[1]
Ext(path) == path[Len(path)]

\* Mutant of CategoryPath: the requested output path is used.
CategoryPathIsOutput(path, cat, mf) == path

\* Lines 900-901, 930-931, 960-961: f"{base_name}_<cat>{format_indicator}{ext}"
CategoryPath(path, cat, mf) ==
    BaseName(path) \o <<"_" \o cat>> \o (IF mf THEN <<"_machine">> ELSE <<>>)
    \o <<Ext(path)>>

\* Lines 898, 928, 958: a category without files is passed over.
SkipCategory ==
    /\ g_pc = "split"
    /\ g_cat <= Len(Categories)
    /\ code_files[Categories[g_cat]] = <<>>
    /\ g_cat' = g_cat + 1
    /\ UNCHANGED legacyVars
    /\ UNCHANGED <<code_files, max_pdf_size_mb, output_path, machine_format, g_pc,
                   g_output_files, g_result, doc_elements, doc_built, g_bins>>
    /\ UNCHANGED <<splitterVars, packerVars, jobVars>>

\* Lines 885, 898-923: the packer is called for a category with files.
CallPacker ==
    /\ g_pc = "split"
    /\ g_cat <= Len(Categories)
    /\ code_files[Categories[g_cat]] # <<>>
    /\ g_pc' = "in_packer"
    /\ files' = code_files[Categories[g_cat]]
    /\ max_size_bytes' = MbToBytes(max_pdf_size_mb[1])
    /\ base_output' = CategoryPath(output_path, Categories[g_cat], machine_format)
    /\ header_elements' = CategoryHeader(Categories[g_cat])
    /\ pk_pc' = "entry"
    /\ UNCHANGED <<file_index, current_part, current_output, current_elements,
                   estimated_size, processed_files, output_files, bins, rename_outcome>>
    /\ UNCHANGED legacyVars
    /\ UNCHANGED <<code_files, max_pdf_size_mb, output_path, machine_format, g_cat,
                   g_output_files, g_result, doc_elements, doc_built, g_bins>>
    /\ UNCHANGED <<splitterVars, jobVars>>

\* Lines 925, 955, 985: output_files.extend(<category>_pdfs)
CategoryReturn ==
    /\ g_pc = "in_packer"
    /\ pk_pc = "returned"
    /\ g_pc' = "split"
    /\ pk_pc' = "idle"
    /\ g_output_files' = g_output_files \o output_files
    /\ g_bins' = Append(g_bins, [cat |-> Categories[g_cat], bins |-> bins,
                                 returned |-> output_files, rename |-> rename_outcome])
    /\ g_cat' = g_cat + 1
    /\ UNCHANGED <<files, max_size_bytes, base_output, header_elements, file_index,
                   current_part, current_output, current_elements, estimated_size,
                   processed_files, output_files, bins, rename_outcome>>
    /\ UNCHANGED legacyVars
    /\ UNCHANGED <<code_files, max_pdf_size_mb, output_path, machine_format, g_result,
                   doc_elements, doc_built>>
    /\ UNCHANGED <<splitterVars, jobVars>>

\* An exception that leaves _split_category_files leaves generate_pdf.
PackerRaised ==
    /\ g_pc = "in_packer"
    /\ pk_pc = "raised"
    /\ g_pc' = "raised"
    /\ pk_pc' = "idle"
    /\ UNCHANGED <<files, max_size_bytes, base_output, header_elements, file_index,
                   current_part, current_output, current_elements, estimated_size,
                   processed_files, output_files, bins, rename_outcome>>
    /\ UNCHANGED legacyVars
    /\ UNCHANGED <<code_files, max_pdf_size_mb, output_path, machine_format, g_cat,
                   g_output_files, g_result, doc_elements, doc_built, g_bins>>
    /\ UNCHANGED <<splitterVars, jobVars>>

\* Lines 987-991: return output_files
SplitDocumentsReturn ==
    /\ g_pc = "split"
    /\ g_cat > Len(Categories)
    /\ g_pc' = "returned"
    /\ g_result' = [kind |-> "list", paths |-> g_output_files]
    /\ UNCHANGED legacyVars
    /\ UNCHANGED <<code_files, max_pdf_size_mb, output_path, machine_format, g_cat,
                   g_output_files, doc_elements, doc_built, g_bins>>
    /\ UNCHANGED <<splitterVars, packerVars, jobVars>>

PdfNext ==
    \/ GeneratePdf
    \/ GenerateSingleDocument
    \/ SkipCategory
    \/ CallPacker
    \/ PackerEnter
    \/ ProcessFile
    \/ PackerFinish
    \/ CategoryReturn
    \/ PackerRaised
    \/ SplitDocumentsReturn

PdfSpec == PdfInit /\ [][PdfNext]_vars

(***************************************************************************)
(* generate_pdf called with a flat list of files                           *)
(***************************************************************************)

LegacyInit ==
    /\ SplitterIdle
    /\ PackerIdle
    /\ JobIdle
    /\ ServerIdle
    /\ code_files = NoFiles
    /\ flat_code_files \in {<<fs>> : fs \in FileLists("regular", MaxFiles, PdfKinds)}
    /\ max_pdf_size_mb \in PdfBudgets
    /\ output_path = <<"proj", "_code", ".pdf">>
    /\ machine_format \in BOOLEAN
    /\ g_pc = "called"
    /\ g_cat = 1
    /\ g_output_files = <<>>
    /\ g_result = NoResult
    /\ doc_elements = <<>>
    /\ doc_built = "none"
    /\ g_bins = <<>>

\* Lines 631-686: generate_single_document on a flat list: a heading, then
\* every file or the notice of its handler; the path is returned whether or
\* not the build succeeded.
LegacySingleDocument ==
    /\ g_pc = "single"
    /\ flat_code_files # <<>>
    /\ IF Escapes(flat_code_files[1])
       THEN /\ g_pc' = "raised"
            /\ UNCHANGED <<doc_elements, doc_built, g_result>>
       ELSE /\ g_pc' = "returned"
            /\ doc_elements' = DocumentHeader
                               \o <<Element("code_files_heading", "all", 0)>>
                               \o [k \in 1..Len(flat_code_files[1]) |->
                                     SingleEntry(flat_code_files[1][k])]
            /\ \E built \in BOOLEAN :
                  doc_built' = IF built THEN "built" ELSE "failed"
            /\ g_result' = [kind |-> "path", paths |-> <<output_path>>]
    /\ UNCHANGED legacyVars
    /\ UNCHANGED <<code_files, max_pdf_size_mb, output_path, machine_format, g_cat,
                   g_output_files, g_bins>>
    /\ UNCHANGED <<splitterVars, packerVars, jobVars>>

\* Lines 852-870 and 688: generate_split_documents passes machine_format to
\* _generate_split_pdfs, which has no such parameter: the call raises a
\* TypeError before the legacy packer runs.
LegacySplitDocuments ==
    /\ g_pc = "split"
    /\ flat_code_files # <<>>
    /\ g_pc' = "raised"
    /\ UNCHANGED legacyVars
    /\ UNCHANGED <<code_files, max_pdf_size_mb, output_path, machine_format, g_cat,
                   g_output_files, g_result, doc_elements, doc_built, g_bins>>
    /\ UNCHANGED <<splitterVars, packerVars, jobVars>>

LegacyNext ==
    \/ GeneratePdf
    \/ LegacySingleDocument
    \/ LegacySplitDocuments

LegacySpec == LegacyInit /\ [][LegacyNext]_vars

(***************************************************************************)
(* upload_async and process_project_async_worker                           *)
(***************************************************************************)

\* The kinds of files found in an uploaded project: among its regular files,
\* and among its iOS and Android files.
JobKinds ==
    { [chars |-> 0, read |-> "ok", raises |-> "no"],
      [chars |-> 0, read |-> "ok", raises |-> "escapes"] }

JobOtherKinds == { [chars |-> 0, read |-> "ok", raises |-> "no"] }

\* The form field max_pdf_size: absent, not a number, or a number of
\* hundredths of a megabyte.
FormSizes ==
    { [given |-> FALSE, numeric |-> TRUE,  value |-> 0],
      [given |-> TRUE,  numeric |-> FALSE, value |-> 0],
      [given |-> TRUE,  numeric |-> TRUE,  value |-> -100],
      [given |-> TRUE,  numeric |-> TRUE,  value |-> 0],
      [given |-> TRUE,  numeric |-> TRUE,  value |-> 200] }

Forms ==
    [split_pdf : {"on", "off"},
     max_pdf_size : FormSizes,
     output_format : {"human", "machine"},
     include_categories : {{}, {"regular", "ios"}}]

NoDownload == [kind |-> "none", path |-> <<>>, members |-> <<>>]

\* A project archive is submitted to /upload-async.
JobInit ==
    /\ SplitterIdle
    /\ PackerIdle
    /\ PdfIdle
    /\ ServerIdle
    /\ form \in Forms
    /\ file_categories \in [regular : FileLists("regular", MaxFiles, JobKinds),
                            ios     : FileLists("ios", MaxCatFiles, JobOtherKinds),
                            android : FileLists("android", MaxCatFiles, JobOtherKinds)]
    /\ job_pc = "submitted"
    /\ worker_max_pdf_size = <<>>
    /\ w_output_files = <<>>
    /\ w_download = NoDownload
    /\ progress_queue = <<>>

\* Mutant of UploadBudget: no default, the budget stays absent.
UploadBudgetNoDefault(f) ==
    IF f.split_pdf = "on" /\ f.max_pdf_size.numeric /\ f.max_pdf_size.value > 0
    THEN <<f.max_pdf_size.value>>
    ELSE <<>>

\* Lines 1435-1446: the budget handed to the worker.  float() of the field
\* (of '0' when it is absent) raises ValueError when it is not a number.
UploadBudget(f) ==
    IF f.split_pdf = "on"
    THEN IF f.max_pdf_size.numeric
         THEN IF f.max_pdf_size.value <= 0
              THEN <<DefaultSplitMb>>
              ELSE <<f.max_pdf_size.value>>
         ELSE <<DefaultSplitMb>>
    ELSE <<DefaultSplitMb>>

\* Line 1449
MachineFormat(f) == f.output_format = "machine"

\* Lines 1452-1455: all categories when none is selected.
IncludeCategories(f) ==
    IF f.include_categories = {} THEN {"regular", "ios", "android"}
    ELSE f.include_categories

\* Lines 1467-1472: f"{pdf_basename}_code{format_indicator}.pdf"
PdfPath(f) ==
    <<"proj", "_code">> \o (IF MachineFormat(f) THEN <<"_machine">> ELSE <<>>)
    \o <<".pdf">>

\* Lines 1804-1816; generate_pdf reads a category that was left out as [].
FilteredCategories(f, fc) ==
    [c \in DOMAIN fc |-> IF c \in IncludeCategories(f) THEN fc[c] ELSE <<>>]

\* Lines 1823-1826
TotalFiles(fc) == Len(fc.regular) + Len(fc.ios) + Len(fc.android)

\* Lines 1407-1494: upload_async starts the worker thread.
UploadAsync ==
    /\ job_pc = "submitted"
    /\ job_pc' = "worker"
    /\ worker_max_pdf_size' = UploadBudget(form)
    /\ UNCHANGED serverVars
    /\ UNCHANGED <<form, file_categories, w_output_files, w_download, progress_queue>>
    /\ UNCHANGED <<splitterVars, packerVars, pdfVars>>

\* Lines 1828-1831: nothing to process.
WorkerNoFiles ==
    /\ job_pc = "worker"
    /\ TotalFiles(file_categories) = 0
    /\ job_pc' = "no_files"
    /\ progress_queue' = Append(progress_queue, CompleteEvent("Process complete", <<>>))
    /\ UNCHANGED serverVars
    /\ UNCHANGED <<form, file_categories, worker_max_pdf_size, w_output_files, w_download>>
    /\ UNCHANGED <<splitterVars, packerVars, pdfVars>>

\* Lines 2020-2023 without the terminal update of line 2023.
WorkerFailsSilently ==
    /\ job_pc = "worker"
    /\ job_pc' = "failed"
    /\ UNCHANGED serverVars
    /\ UNCHANGED <<form, file_categories, worker_max_pdf_size, w_output_files, w_download,
                   progress_queue>>
    /\ UNCHANGED <<splitterVars, packerVars, pdfVars>>

\* Lines 1765, 2020-2023: the archive cannot be extracted.
WorkerFails ==
    /\ job_pc = "worker"
    /\ job_pc' = "failed"
    /\ progress_queue' = Append(progress_queue, CompleteEvent("Process failed", <<>>))
    /\ UNCHANGED serverVars
    /\ UNCHANGED <<form, file_categories, worker_max_pdf_size, w_output_files, w_download>>
    /\ UNCHANGED <<splitterVars, packerVars, pdfVars>>

\* Lines 1878-1887: the worker calls generate_pdf.
WorkerGenerate ==
    /\ job_pc = "worker"
    /\ TotalFiles(file_categories) > 0
    /\ job_pc' = "generating"
    /\ code_files' = FilteredCategories(form, file_categories)
    /\ max_pdf_size_mb' = worker_max_pdf_size
    /\ output_path' = PdfPath(form)
    /\ machine_format' = MachineFormat(form)
    /\ g_pc' = "called"
    /\ UNCHANGED <<g_cat, g_output_files, g_result, doc_elements, doc_built, g_bins>>
    /\ UNCHANGED legacyVars
    /\ UNCHANGED serverVars
    /\ UNCHANGED <<form, file_categories, worker_max_pdf_size, w_output_files,
                   w_download, progress_queue>>
    /\ UNCHANGED <<splitterVars, packerVars>>

\* Lines 1837-1841: f"{base_path}_structure{format_indicator}{ext}"
StructurePath(f) ==
    BaseName(PdfPath(f)) \o <<"_structure">>
    \o (IF MachineFormat(f) THEN <<"_machine">> ELSE <<>>) \o <<Ext(PdfPath(f))>>

\* Line 1948: f"{zip_basename}_pdfs{format_indicator}.zip"
ZipPath(f) ==
    <<"proj", "_pdfs">> \o (IF MachineFormat(f) THEN <<"_machine">> ELSE <<>>)
    \o <<".zip">>

\* Line 1718: the archive of the text files.
TextZipPath == <<"code_files", ".zip">>

\* Lines 1929-1932: the structure document, when it exists, is put first.
WithStructure(fs, exists, f) ==
    IF exists THEN <<StructurePath(f)>> \o fs ELSE fs

\* Mutant of Bundled: a single document is archived as well.
BundledAlways(fs) == Len(fs) >= 1

\* Line 1941: isinstance(output_files, list) and len(output_files) > 1
Bundled(fs) == Len(fs) > 1

\* Mutant of FallBack: the text files are never used.
FallBackNever(raised, fs) == FALSE

\* Line 1895: not pdf_success or not output_files
FallBack(raised, fs) == raised \/ fs = <<>>

\* Lines 1888-2023: what the worker does once generate_pdf has returned or
\* raised.  Text files when generate_pdf raised or returned nothing; else an
\* archive of the documents when there are several (the structure document
\* of lines 1847-1868 included when it exists), else the single document.
\* Writing the archive (of the documents, or of the text files) may raise:
\* the handler of line 2020 then ends the job as failed, nothing registered.
WorkerFinish ==
    /\ job_pc = "generating"
    /\ g_pc \in {"returned", "raised"}
    /\ \E structure_exists \in BOOLEAN :
       \E written \in BOOLEAN :
          LET raised == g_pc = "raised"
              fs     == WithStructure(g_result.paths, structure_exists, form)
          IN
          IF FallBack(raised, g_result.paths)
          THEN /\ w_output_files' = <<>>
               /\ IF written
                  THEN /\ job_pc' = "text_files"
                       /\ w_download' = [kind |-> "text_zip", path |-> TextZipPath,
                                         members |-> <<>>]
                       /\ progress_queue' =
                             Append(progress_queue,
                                    CompleteEvent("Text files created", TextZipPath))
                  ELSE /\ job_pc' = "failed"
                       /\ w_download' = w_download
                       /\ progress_queue' =
                             Append(progress_queue, CompleteEvent("Process failed", <<>>))
          ELSE /\ w_output_files' = fs
               /\ IF Bundled(fs)
                  THEN IF written
                       THEN /\ job_pc' = "zip"
                            /\ w_download' = [kind |-> "zip", path |-> ZipPath(form),
                                              members |-> fs]
                            /\ progress_queue' =
                                  Append(progress_queue,
                                         CompleteEvent("Processing complete", ZipPath(form)))
                       ELSE /\ job_pc' = "failed"
                            /\ w_download' = w_download
                            /\ progress_queue' =
                                  Append(progress_queue,
                                         CompleteEvent("Process failed", <<>>))
                  ELSE IF fs # <<>>
                       THEN /\ job_pc' = "single_pdf"
                            /\ w_download' = [kind |-> "pdf", path |-> fs[1],
                                              members |-> <<>>]
                            /\ progress_queue' =
                                  Append(progress_queue,
                                         CompleteEvent("Processing complete", fs[1]))
                       ELSE \* lines 1997-1998: basename of an empty list raises
                            /\ job_pc' = "failed"
                            /\ w_download' = w_download
                            /\ progress_queue' =
                                  Append(progress_queue,
                                         CompleteEvent("Process failed", <<>>))
    /\ UNCHANGED serverVars
    /\ UNCHANGED <<form, file_categories, worker_max_pdf_size>>
    /\ UNCHANGED <<splitterVars, packerVars, pdfVars>>

JobNext ==
    \/ UploadAsync
    \/ WorkerNoFiles
    \/ WorkerFails
    \/ WorkerGenerate
    \/ GeneratePdf
    \/ SkipCategory
    \/ CallPacker
    \/ PackerEnter
    \/ ProcessFile
    \/ PackerFinish
    \/ CategoryReturn
    \/ PackerRaised
    \/ SplitDocumentsReturn
    \/ WorkerFinish

JobSpec == JobInit /\ [][JobNext]_vars

\* Lines 1482-1488: the worker runs in a thread of its own, which the
\* interpreter keeps scheduling until the function returns.
FairJobSpec == JobSpec /\ WF_vars(JobNext)

\* Budgets process_project_async_worker is called with: its default None, or
\* the default of upload_async.
WorkerBudgets == {<<>>, <<DefaultSplitMb>>}

\* process_project_async_worker called with its arguments (lines 1736-1751).
WorkerInit ==
    /\ SplitterIdle
    /\ PackerIdle
    /\ PdfIdle
    /\ ServerIdle
    /\ form \in Forms
    /\ file_categories \in [regular : FileLists("regular", MaxFiles, JobKinds),
                            ios     : FileLists("ios", MaxCatFiles, JobOtherKinds),
                            android : FileLists("android", MaxCatFiles, JobOtherKinds)]
    /\ job_pc = "worker"
    /\ worker_max_pdf_size \in WorkerBudgets
    /\ w_output_files = <<>>
    /\ w_download = NoDownload
    /\ progress_queue = <<>>

WorkerNext ==
    \/ WorkerNoFiles
    \/ WorkerFails
    \/ WorkerGenerate
    \/ GeneratePdf
    \/ GenerateSingleDocument
    \/ SkipCategory
    \/ CallPacker
    \/ PackerEnter
    \/ ProcessFile
    \/ PackerFinish
    \/ PackerRaised
    \/ CategoryReturn
    \/ SplitDocumentsReturn
    \/ WorkerFinish

WorkerSpec == WorkerInit /\ [][WorkerNext]_vars

(***************************************************************************)
(* The server: two uploads, their workers, the registry of downloads       *)
(* (app.download_files) and download_file                                  *)
(***************************************************************************)

\* Lines 1903, 1982, 2004: the name of the file a worker registers.
ArtifactName(kind) ==
    CASE kind = "pdf"      -> "code.pdf"
      [] kind = "zip"      -> "code_split_pdfs.zip"
      [] kind = "text_zip" -> "code_files.zip"

ArtifactKinds == {"pdf", "zip", "text_zip"}

\* Line 1278: the log file is named after the global current_task_id.
LogsName(id) == IF id = "A" THEN "process_logs_A.txt" ELSE "process_logs_B.txt"

\* What a request to download_file may carry.
RequestIds == {"", "A", "B", "Z"}
RequestNames == {"", "code.pdf", "process_logs.txt", "other.bin"}

ServerInit ==
    /\ SplitterIdle
    /\ PackerIdle
    /\ PdfIdle
    /\ JobIdle
    /\ current_task_id = "none"
    /\ srv_pc = [j \in Jobs |-> "new"]
    /\ task_id = [j \in Jobs |-> "none"]
    /\ download_files = [k \in RegistryKeys |-> <<>>]
    /\ writers = [k \in RegistryKeys |-> {}]
    /\ response = NoResponse
    /\ queue_meta = <<>>
    /\ announced = {}
    /\ stream_pc = [j \in Jobs |-> "none"]
    /\ received = [j \in Jobs |-> <<>>]

ServerJobUnchanged ==
    UNCHANGED <<form, file_categories, job_pc, worker_max_pdf_size, w_output_files,
                w_download>>

\* Lines 1419-1424: upload_async empties the queue and sets the global
\* current_task_id to the identifier of this upload.
UploadBegin(j) ==
    /\ srv_pc[j] = "new"
    /\ srv_pc' = [srv_pc EXCEPT ![j] = "uploading"]
    /\ progress_queue' = <<>>
    /\ current_task_id' = j
    /\ queue_meta' = <<>>
    /\ UNCHANGED <<announced, stream_pc, received>>
    /\ ServerJobUnchanged
    /\ UNCHANGED <<task_id, download_files, writers, response>>
    /\ UNCHANGED <<splitterVars, packerVars, pdfVars>>

\* Lines 1482-1488: the worker thread is started with the value the global
\* current_task_id has by then.
UploadStart(j) ==
    /\ srv_pc[j] = "uploading"
    /\ srv_pc' = [srv_pc EXCEPT ![j] = "started"]
    /\ task_id' = [task_id EXCEPT ![j] = current_task_id]
    /\ ServerJobUnchanged
    /\ UNCHANGED <<progress_queue, current_task_id, download_files, writers, response>>
    /\ UNCHANGED channelVars
    /\ UNCHANGED <<splitterVars, packerVars, pdfVars>>

\* Lines 1738-1751: the worker sets the global current_task_id to its own.
WorkerBegin(j) ==
    /\ srv_pc[j] = "started"
    /\ srv_pc' = [srv_pc EXCEPT ![j] = "running"]
    /\ current_task_id' = task_id[j]
    /\ ServerJobUnchanged
    /\ UNCHANGED <<progress_queue, task_id, download_files, writers, response>>
    /\ UNCHANGED channelVars
    /\ UNCHANGED <<splitterVars, packerVars, pdfVars>>

\* Lines 1911, 1990, 2014: app.download_files[task_id] = the artifact.
WorkerRegister(j) ==
    /\ srv_pc[j] = "running"
    /\ \E kind \in ArtifactKinds :
          /\ srv_pc' = [srv_pc EXCEPT ![j] = kind]
          /\ download_files' =
                [download_files EXCEPT ![<<task_id[j], "out">>] =
                    <<[owner |-> j, name |-> ArtifactName(kind)]>>]
    /\ writers' = [writers EXCEPT ![<<task_id[j], "out">>] = @ \cup {j}]
    /\ ServerJobUnchanged
    /\ UNCHANGED <<progress_queue, current_task_id, task_id, response>>
    /\ UNCHANGED channelVars
    /\ UNCHANGED <<splitterVars, packerVars, pdfVars>>

\* Lines 1905, 1984, 2008: the download_url of the terminal update of worker
\* j names the worker's task_id and the artifact it registered.
Announcement(j) == [from |-> j, id |-> task_id[j], kind |-> srv_pc[j]]

\* Lines 1830, 1913, 2016, 2023 with 1264-1272 and 1275-1297: the terminal
\* update; save_logs_to_file registers the log file under the key made of
\* the global current_task_id, unless the log is empty or cannot be written.
WorkerComplete(j) ==
    /\ srv_pc[j] \in {"running"} \cup ArtifactKinds
    /\ srv_pc' = [srv_pc EXCEPT ![j] = "done"]
    /\ \E saved \in BOOLEAN :
          IF saved
          THEN /\ download_files' =
                     [download_files EXCEPT ![<<current_task_id, "logs">>] =
                         <<[owner |-> j, name |-> LogsName(current_task_id)]>>]
               /\ writers' = [writers EXCEPT ![<<current_task_id, "logs">>] = @ \cup {j}]
          ELSE UNCHANGED <<download_files, writers>>
    /\ progress_queue' =
          Append(progress_queue,
                 IF srv_pc[j] = "running"
                 THEN CompleteEvent("Process failed", <<>>)
                 ELSE CompleteEvent("Processing complete", <<ArtifactName(srv_pc[j])>>))
    /\ queue_meta' = Append(queue_meta, Announcement(j))
    /\ announced' = IF srv_pc[j] = "running" THEN announced
                    ELSE announced \cup {Announcement(j)}
    /\ UNCHANGED <<stream_pc, received>>
    /\ ServerJobUnchanged
    /\ UNCHANGED <<current_task_id, task_id, response>>
    /\ UNCHANGED <<splitterVars, packerVars, pdfVars>>

\* Lines 1496-1528: download_file.
Download(id, filename, is_logs, exists) ==
    LET key == <<id, IF is_logs THEN "logs" ELSE "out">>
        redirect == [kind |-> "redirect", file |-> <<>>, task_id |-> id,
                     filename |-> filename, logs |-> is_logs]
    IN
    /\ response' =
          IF filename = "" \/ id = ""
          THEN redirect
          ELSE IF key \notin RegistryKeys
          THEN redirect
          ELSE IF download_files[key] = <<>>
          THEN redirect
          ELSE IF ~exists
          THEN redirect
          ELSE [kind |-> "file", file |-> download_files[key], task_id |-> id,
                filename |-> filename, logs |-> is_logs]
    /\ ServerJobUnchanged
    /\ UNCHANGED <<progress_queue, current_task_id, srv_pc, task_id, download_files,
                   writers>>
    /\ UNCHANGED channelVars
    /\ UNCHANGED <<splitterVars, packerVars, pdfVars>>

ServerNext ==
    \/ \E j \in Jobs : UploadBegin(j)
    \/ \E j \in Jobs : UploadStart(j)
    \/ \E j \in Jobs : WorkerBegin(j)
    \/ \E j \in Jobs : WorkerRegister(j)
    \/ \E j \in Jobs : WorkerComplete(j)
    \/ \E id \in RequestIds : \E filename \in RequestNames :
       \E is_logs \in BOOLEAN : \E exists \in BOOLEAN :
          Download(id, filename, is_logs, exists)

ServerSpec == ServerInit /\ [][ServerNext]_vars

\* Lines 1303-1311: progress_stream is requested with the identifier that
\* upload_async returned for upload j; it is refused when that is not the
\* global current_task_id at the time of the request.
StreamConnect(j) ==
    /\ stream_pc[j] = "none"
    /\ srv_pc[j] \notin {"new", "uploading"}
    /\ stream_pc' = [stream_pc EXCEPT ![j] =
                        IF task_id[j] # current_task_id THEN "invalid" ELSE "listening"]
    /\ ServerJobUnchanged
    /\ UNCHANGED <<progress_queue, queue_meta, announced, received>>
    /\ UNCHANGED <<current_task_id, srv_pc, task_id, download_files, writers, response>>
    /\ UNCHANGED <<splitterVars, packerVars, pdfVars>>

\* Lines 1315-1323: the generator takes the next update from the one global
\* queue, sends it, and ends when the update has complete set.
StreamGet(j) ==
    /\ stream_pc[j] = "listening"
    /\ progress_queue # <<>>
    /\ progress_queue' = Tail(progress_queue)
    /\ queue_meta' = Tail(queue_meta)
    /\ received' = [received EXCEPT ![j] = Append(@, Head(queue_meta).from)]
    /\ stream_pc' = [stream_pc EXCEPT ![j] =
                        IF Head(progress_queue).complete THEN "closed" ELSE "listening"]
    /\ ServerJobUnchanged
    /\ UNCHANGED announced
    /\ UNCHANGED <<current_task_id, srv_pc, task_id, download_files, writers, response>>
    /\ UNCHANGED <<splitterVars, packerVars, pdfVars>>

ChannelNext ==
    \/ \E j \in Jobs : UploadBegin(j)
    \/ \E j \in Jobs : UploadStart(j)
    \/ \E j \in Jobs : WorkerBegin(j)
    \/ \E j \in Jobs : WorkerRegister(j)
    \/ \E j \in Jobs : WorkerComplete(j)
    \/ \E j \in Jobs : StreamConnect(j)
    \/ \E j \in Jobs : StreamGet(j)

ChannelSpec == ServerInit /\ [][ChannelNext]_vars

(***************************************************************************)
(* Claims about generate_pdf                                               *)
(***************************************************************************)

BudgetAbsentOrNonPositive == Len(max_pdf_size_mb) = 0 \/ max_pdf_size_mb[1] <= 0

\* The units supplied to generate_pdf, category after category.
AllUnits == code_files.regular \o code_files.ios \o code_files.android

IsEntry(e) == e.kind \in {"file", "warning"}

UnitOf(e) == [cat |-> e.cat, path |-> e.ref]

UnitKey(u) == [cat |-> u.cat, path |-> u.path]

\* C6 as stated: with an absent or non-positive budget no splitting condition
\* is evaluated and when generate_pdf returns exactly one artifact has been
\* produced, holding all units of all supplied categories.
C6_OneArtifactWithAllUnits ==
    (BudgetAbsentOrNonPositive /\ g_pc = "returned") =>
        /\ pk_pc = "idle"
        /\ doc_built = "built"
        /\ LET held == SelectSeq(doc_elements, IsFile) IN
           /\ Len(held) = Len(AllUnits)
           /\ \A k \in 1..Len(held) : UnitOf(held[k]) = UnitKey(AllUnits[k])

\* C6 amended: with an absent or non-positive budget the packer is never
\* entered and no bin is closed; when generate_pdf returns it returns the
\* requested path alone, not a list; the single document has one entry per
\* supplied unit, category after category in arrival order, the unit itself
\* or an error notice in its place when the unit could not be read or its
\* elements raised; the document exists only if its build succeeded, the path
\* is returned in both cases.
C6_NoPartitionBudget ==
    (BudgetAbsentOrNonPositive /\ g_pc # "idle") =>
        /\ pk_pc = "idle"
        /\ bins = <<>>
        /\ g_bins = <<>>
        /\ g_pc \in {"called", "single", "returned", "raised"}
        /\ g_pc = "returned" =>
              /\ g_result = [kind |-> "path", paths |-> <<output_path>>]
              /\ doc_built \in {"built", "failed"}
              /\ LET entries == SelectSeq(doc_elements, IsEntry) IN
                 /\ Len(entries) = Len(AllUnits)
                 /\ \A k \in 1..Len(entries) :
                       /\ UnitOf(entries[k]) = UnitKey(AllUnits[k])
                       /\ IsFile(entries[k]) <=>
                             (AllUnits[k].read = "ok" /\ AllUnits[k].raises = "no")

\* C6 witness: generate_pdf returned with budget 0, the single document was
\* built and holds units of two categories and an error notice.
C6_Witness ==
    /\ g_pc = "returned"
    /\ max_pdf_size_mb = <<0>>
    /\ doc_built = "built"
    /\ pk_pc = "idle"
    /\ Len(AllUnits) = 3
    /\ Len(SelectSeq(doc_elements, IsFile)) = 2
    /\ Len(SelectSeq(doc_elements, IsWarning)) = 1

\* The artifacts produced when generate_pdf returned.
ArtifactsProduced ==
    IF g_result.kind = "path"
    THEN (IF doc_built = "built" THEN g_result.paths ELSE <<>>)
    ELSE g_result.paths

\* C9 as stated: when generate_pdf produces exactly one artifact, its path is
\* the requested output path.
C9_SingleArtifactIsOutputPath ==
    (g_pc = "returned" /\ Len(ArtifactsProduced) = 1) =>
        ArtifactsProduced[1] = output_path

\* f"{base_name}_<cat>{format_indicator}{ext}" for the requested output path.
CategoryName(cat) ==
    SubSeq(output_path, 1, Len(output_path) - 1)
    \o <<"_" \o cat>> \o (IF machine_format THEN <<"_machine">> ELSE <<>>)
    \o <<".pdf">>

\* The category name with the suffix of part n before the extension.
CategoryPartName(cat, n) ==
    SubSeq(CategoryName(cat), 1, Len(CategoryName(cat)) - 1)
    \o <<"_part" \o ToString(n), ".pdf">>

\* C9 amended: with an absent or non-positive budget generate_pdf returns the
\* requested output path.  With a positive budget every artifact is named
\* after its category, <base>_<category>[_machine].pdf, with or without a
\* part suffix, and none has the requested output path; a category that gave
\* exactly one artifact whose rename succeeded has the category name without
\* part suffix, so a single artifact overall is named after its category.
C9_SingleArtifactName ==
    g_pc = "returned" =>
        IF BudgetAbsentOrNonPositive
        THEN g_result = [kind |-> "path", paths |-> <<output_path>>]
        ELSE /\ g_result.kind = "list"
             /\ \A k \in 1..Len(g_result.paths) :
                   /\ g_result.paths[k] # output_path
                   /\ \E c \in {"regular", "ios", "android"} :
                         /\ code_files[c] # <<>>
                         /\ \/ g_result.paths[k] = CategoryName(c)
                            \/ \E n \in 1..Len(code_files[c]) :
                                  g_result.paths[k] = CategoryPartName(c, n)
             /\ \A j \in 1..Len(g_bins) :
                   g_bins[j].rename = "renamed" =>
                       g_bins[j].returned = <<CategoryName(g_bins[j].cat)>>
             /\ g_result.paths = ConcatEntries([j \in 1..Len(g_bins) |->
                                     [entries |-> g_bins[j].returned]])

\* C9 witness: generate_pdf returned with a positive budget and exactly one
\* artifact, the renamed single part of its only category.
C9_Witness ==
    /\ g_pc = "returned"
    /\ max_pdf_size_mb = <<200>>
    /\ Len(g_result.paths) = 1
    /\ Len(g_bins) = 1
    /\ g_bins[1].rename = "renamed"
    /\ Len(g_bins[1].bins) = 1
    /\ g_result.paths[1] # output_path

(***************************************************************************)
(* Claims about the budget of a job                                        *)
(***************************************************************************)

\* The submitted budget is non-positive or splitting is switched off.
NoSplittingAsked ==
    \/ form.split_pdf = "off"
    \/ form.max_pdf_size.numeric /\ form.max_pdf_size.value <= 0

\* C7 as stated: a job submitted with a budget <= 0 or with splitting off
\* hands the worker an absent or non-positive budget, and its code output is
\* one document.
C7_NonPositiveMeansNoSplit ==
    (job_pc # "submitted" /\ NoSplittingAsked) =>
        /\ Len(worker_max_pdf_size) = 0 \/ worker_max_pdf_size[1] <= 0
        /\ g_pc = "returned" => Len(g_result.paths) <= 1

\* C7 amended: the worker is handed the submitted budget when splitting is on
\* and the budget is a positive number, and the default 0.39 MB otherwise
\* (budget <= 0, absent, not a number, or splitting off).  generate_pdf is
\* called with that budget, never builds the single document and returns a
\* list, and the packer is run on every selected category with files; under
\* the default budget every unit is alone in its bin.
C7_WorkerBudget ==
    job_pc # "submitted" =>
        /\ worker_max_pdf_size =
              (IF form.split_pdf = "on" /\ form.max_pdf_size.numeric
                  /\ form.max_pdf_size.value > 0
               THEN <<form.max_pdf_size.value>>
               ELSE <<DefaultSplitMb>>)
        /\ g_pc # "idle" => max_pdf_size_mb = worker_max_pdf_size
        /\ g_pc # "single"
        /\ doc_built = "none"
        /\ g_pc = "returned" =>
              /\ g_result.kind = "list"
              /\ Len(g_bins) = Cardinality({c \in DOMAIN code_files : code_files[c] # <<>>})
              /\ \A j \in 1..Len(g_bins) :
                    /\ Len(g_bins[j].bins) >= 1
                    /\ worker_max_pdf_size = <<DefaultSplitMb>> =>
                          Len(g_bins[j].bins) = Len(code_files[g_bins[j].cat])

\* C7 witness: a job submitted with splitting on and budget 0 ended with an
\* archive of several documents, one of them a second part.
C7_Witness ==
    /\ job_pc = "zip"
    /\ form.split_pdf = "on"
    /\ form.max_pdf_size = [given |-> TRUE, numeric |-> TRUE, value |-> 0]
    /\ worker_max_pdf_size = <<DefaultSplitMb>>
    /\ Len(g_result.paths) >= 3
    /\ \E k \in 1..Len(g_result.paths) : ContainsPart(g_result.paths[k], 2)

(***************************************************************************)
(* Claims about the artifacts of the categories                            *)
(***************************************************************************)

CategoryRank(c) ==
    CASE c = "regular" -> 1
      [] c = "ios" -> 2
      [] OTHER -> 3

\* The bins of a category whose build succeeded, in the order they were closed.
BuiltOf(r) == SelectSeq(r.bins, BuiltBin)

\* The artifacts a category returned are those of its built bins, in
\* increasing part order, or its single renamed artifact.
CategoryPartsInOrder(r) ==
    /\ Len(r.returned) = Len(BuiltOf(r))
    /\ \A k \in 1..Len(r.returned) :
          r.returned[k] = IF r.rename = "renamed"
                          THEN CategoryName(r.cat)
                          ELSE CategoryPartName(r.cat, BuiltOf(r)[k].part)
    /\ \A k, l \in 1..Len(BuiltOf(r)) :
          k < l => BuiltOf(r)[k].part < BuiltOf(r)[l].part

\* C11: with a positive budget, when generate_pdf returns, every bin (hence
\* every artifact) holds entries of one category only, the category it is
\* named after; the categories with files were packed in the order regular,
\* ios, android; and the returned list is the concatenation, in that order,
\* of the artifacts of each category, each category's parts by increasing
\* part number.
C11_CategoryGroupingAndOrder ==
    (g_pc = "returned" /\ ~BudgetAbsentOrNonPositive) =>
        /\ g_result.kind = "list"
        /\ g_result.paths = ConcatEntries([j \in 1..Len(g_bins) |->
                                [entries |-> g_bins[j].returned]])
        /\ {g_bins[j].cat : j \in 1..Len(g_bins)}
              = {c \in {"regular", "ios", "android"} : code_files[c] # <<>>}
        /\ \A i, j \in 1..Len(g_bins) :
              i < j => CategoryRank(g_bins[i].cat) < CategoryRank(g_bins[j].cat)
        /\ \A j \in 1..Len(g_bins) :
              /\ CategoryPartsInOrder(g_bins[j])
              /\ \A b \in 1..Len(g_bins[j].bins) :
                    \A k \in 1..Len(g_bins[j].bins[b].entries) :
                       g_bins[j].bins[b].entries[k].cat = g_bins[j].cat

\* C11 witness: generate_pdf returned the artifacts of three categories, two
\* parts of the first one, then one artifact for each of the others.
C11_Witness ==
    /\ g_pc = "returned"
    /\ ~BudgetAbsentOrNonPositive
    /\ Len(g_bins) = 3
    /\ Len(g_bins[1].returned) >= 2
    /\ Len(g_bins[2].returned) = 1
    /\ Len(g_bins[3].returned) = 1
    /\ Len(g_result.paths) >= 4

(***************************************************************************)
(* Claims about the end of a job                                           *)
(***************************************************************************)

\* The job ended by delivering documents.
DocumentsDelivered == job_pc \in {"zip", "single_pdf"}

\* C12: when a job ends by delivering documents, its final artifact set (the
\* documents generate_pdf returned, after the structure document when that
\* exists) is not empty; the registered download is an archive if and only if
\* the set has more than one member, and the archive then holds exactly the
\* members of the set; when the set has one member the registered download is
\* that document and no archive is made.
C12_BundlingRule ==
    DocumentsDelivered =>
        /\ Len(w_output_files) >= 1
        /\ SubSeq(w_output_files, Len(w_output_files) - Len(g_result.paths) + 1,
                  Len(w_output_files)) = g_result.paths
        /\ Len(w_output_files) - Len(g_result.paths) \in {0, 1}
        /\ (w_download.kind = "zip") <=> (Len(w_output_files) > 1)
        /\ (job_pc = "zip") <=> (Len(w_output_files) > 1)
        /\ Len(w_output_files) > 1 =>
              /\ w_download.members = w_output_files
              /\ w_download.path[Len(w_download.path)] = ".zip"
        /\ Len(w_output_files) = 1 =>
              w_download = [kind |-> "pdf", path |-> w_output_files[1], members |-> <<>>]
        /\ progress_queue[Len(progress_queue)].download_url = w_download.path

\* C12 witness: a job with one code document and the structure document ended
\* with an archive of the two.
C12_Witness ==
    /\ job_pc = "zip"
    /\ Len(g_result.paths) = 1
    /\ Len(w_output_files) = 2
    /\ w_download.kind = "zip"
    /\ w_download.members = w_output_files

\* The worker has enqueued its terminal event.
JobEnded == job_pc \in {"no_files", "failed", "text_files", "zip", "single_pdf"}

\* The rename of a single part failed in the packer (lines 1151-1152).
RenameFailed == \E j \in 1..Len(g_bins) : g_bins[j].rename = "failed"

\* Writing the archive of the documents raised (lines 1964-1971).
BundlingFailed == job_pc = "failed" /\ Len(w_output_files) > 1

\* The terminal event reports success and offers a download.
EndedWithDownload ==
    /\ progress_queue # <<>>
    /\ progress_queue[Len(progress_queue)].message # "Process failed"
    /\ progress_queue[Len(progress_queue)].download_url # <<>>
    /\ w_download.kind # "none"

\* C13: a job in which the rename of a single part failed, or in which writing
\* the archive of the documents failed, still ends with a terminal event that
\* reports success and offers a download; it does not end as 'Process failed'
\* without download.
C13_FinalizationFailuresNonFatal ==
    (JobEnded /\ g_pc = "returned" /\ (RenameFailed \/ BundlingFailed)) =>
        EndedWithDownload

(***************************************************************************)
(* Claims about failures and oversized pages in split_pdf                  *)
(***************************************************************************)

\* C14: a failure while writing or measuring a candidate range does not abort
\* split_pdf: the refiner never ends by raising, it goes on to the next part
\* and returns the parts it produced.
C14_RefinerDoesNotAbort == sp_pc # "raised"

\* The parts that hold page p.
PartsHolding(p) ==
    {k \in 1..Len(sp_output_files) :
        sp_output_files[k].first <= p /\ p < sp_output_files[k].last}

\* C15 as stated: when split_pdf returns, a page that alone exceeds the budget
\* is the only page of the part that holds it.
C15_OversizedPageAlone ==
    (sp_pc = "done" /\ oversized_page >= 0) =>
        \E k \in PartsHolding(oversized_page) :
           sp_output_files[k].last = sp_output_files[k].first + 1

\* C15 amended: when split_pdf returns, a page that alone exceeds the budget
\* is held by exactly one part (it is never dropped); that part measures above
\* the budget and has at most five pages, the floor of the shrinking loop: it
\* can hold up to four other pages.
C15_OversizedPageKept ==
    (sp_pc = "done" /\ oversized_page >= 0) =>
        /\ Cardinality(PartsHolding(oversized_page)) = 1
        /\ \A k \in PartsHolding(oversized_page) :
              /\ sp_output_files[k].last - sp_output_files[k].first <= Increment
              /\ SizeAbove(sp_output_files[k].bytes, max_size_mb)

\* C15 witness: a finished run with a positive budget in which the page that
\* alone exceeds the budget is in a part of five pages reached by shrinking,
\* after a part within the budget.
C15_Witness ==
    /\ sp_pc = "done"
    /\ max_size_mb = DefaultSplitMb
    /\ oversized_page >= 0
    /\ Len(sp_output_files) >= 3
    /\ shrink_steps >= 1
    /\ \E k \in PartsHolding(oversized_page) :
          /\ k >= 2
          /\ sp_output_files[k].last - sp_output_files[k].first = Increment
          /\ SizeBelow(sp_output_files[k - 1].bytes, max_size_mb)

(***************************************************************************)
(* Claims about failed builds                                              *)
(***************************************************************************)

\* No bin of any category was built.
EveryBuildFailed ==
    /\ g_bins # <<>>
    /\ \A j \in 1..Len(g_bins) :
          \A b \in 1..Len(g_bins[j].bins) : ~g_bins[j].bins[b].built

FailedBuildsSkipped ==
    /\ (g_pc = "in_packer" /\ pk_pc = "loop") => output_files = BuiltPaths
    /\ (g_pc = "in_packer" /\ pk_pc = "returned") =>
          /\ Len(bins) = BinsProduced(files, header_elements, max_size_bytes)
          /\ Len(output_files) = Len(SelectSeq(bins, BuiltBin))

\* When every build of every category failed, generate_pdf returns an empty
\* list and the worker turns to the text files: the job ends with the archive
\* of the text files registered and offered, or, when writing that archive
\* raises as well, as failed.
AllFailedFallsBack ==
    (JobEnded /\ g_pc = "returned" /\ EveryBuildFailed) =>
        /\ g_result.paths = <<>>
        /\ w_output_files = <<>>
        /\ job_pc \in {"text_files", "failed"}
        /\ job_pc = "text_files" =>
              /\ w_download = [kind |-> "text_zip", path |-> TextZipPath,
                                members |-> <<>>]
              /\ progress_queue[Len(progress_queue)] =
                    CompleteEvent("Text files created", TextZipPath)
        /\ job_pc = "failed" => w_download = NoDownload

TerminalEnqueued ==
    /\ progress_queue # <<>>
    /\ progress_queue[Len(progress_queue)].complete

\* C17: every worker that is started eventually puts an update with
\* complete = True on the progress channel, on every path: no files found,
\* single document, bundle, text files after failed builds, and an exception
\* while extracting, packing or bundling; it does so exactly when it ends,
\* and the update stays on the channel.
C17_TerminalStateReached ==
    /\ (job_pc = "worker") ~> TerminalEnqueued
    /\ [](JobEnded <=> TerminalEnqueued)
    /\ [](job_pc \in {"single_pdf", "zip", "text_files"} =>
             progress_queue[Len(progress_queue)].download_url # <<>>)

\* C17 witness: the job whose bundling raised ended with the terminal update
\* 'Process failed' on the channel.
C17_Witness ==
    /\ job_pc = "failed"
    /\ g_pc = "returned"
    /\ Len(w_output_files) > 1
    /\ progress_queue = <<CompleteEvent("Process failed", <<>>)>>

(***************************************************************************)
(* Claims about the registry of downloads and download_file                *)
(***************************************************************************)

\* C18: every key of the registry is written only by the worker of the
\* upload whose identifier the key is made of, the '<id>_logs' key included,
\* so that no key has two writers.
C18_RegistryWriters ==
    \A k \in RegistryKeys :
        /\ writers[k] \subseteq {k[1]}
        /\ Cardinality(writers[k]) <= 1

\* The name under which the worker offers what it registered under a key:
\* the name of the artifact (lines 1903, 1982, 2004), or process_logs.txt
\* (line 1270).
OfferedName(entry, is_logs) == IF is_logs THEN "process_logs.txt" ELSE entry.name

\* C19: download_file sends a file only when the identifier is one a worker
\* registered something under and the requested name is the name of what
\* that job offers; any other request gets no file.
C19_DownloadLookup ==
    response.kind = "file" =>
        /\ response.task_id \in Jobs
        /\ response.filename = OfferedName(response.file[1], response.logs)

(***************************************************************************)
(* Claims about main of pdf_splitter.py                                    *)
(***************************************************************************)

\* C20: the exit status of main tells whether parts were produced: it is the
\* status of success exactly when the run produced at least one part, and
\* another status when it produced none (input missing or unreadable, or a
\* document without pages).
C20_ExitStatusReflectsParts ==
    cli_pc = "exited" => ((exit_status = 0) <=> (sp_output_files # <<>>))

(***************************************************************************)
(* Claims about the ranges split_pdf settles                               *)
(***************************************************************************)

\* Number of pages of a part.
PartPages(p) == p.last - p.first

\* C21: every part split_pdf settles has a last measured size that is not
\* above the budget, or holds at most five pages: no part of more than five
\* pages is emitted with a measured size above the budget.
C21_ShrinkPostcondition ==
    \A k \in 1..Len(sp_output_files) :
        \/ sp_output_files[k].bytes * 100 <= max_size_mb * BytesPerMb
        \/ PartPages(sp_output_files[k]) <= Increment

\* C21 witness: a returned run that settled a part of more than five pages
\* within the budget after shrinking, and a part of five pages above it.
C21_Witness ==
    /\ sp_pc = "done"
    /\ shrink_steps >= 1
    /\ \E k \in 1..Len(sp_output_files) :
          /\ PartPages(sp_output_files[k]) > Increment
          /\ sp_output_files[k].bytes * 100 <= max_size_mb * BytesPerMb
    /\ \E k \in 1..Len(sp_output_files) :
          /\ PartPages(sp_output_files[k]) = Increment
          /\ sp_output_files[k].bytes * 100 > max_size_mb * BytesPerMb

\* The part settled last, while its measurements are still held.
JustSettled == sp_pc \in {"loop", "done"} /\ sp_output_files # <<>>

\* C27: within a part, the settled range is never shorter than the longest
\* range that measured strictly below the budget in that part: shrinking
\* gives back only pages added after the last range that fitted.
C27_ConfirmedPagesKept ==
    JustSettled =>
        \A m \in measured :
            SizeBelow(m[2], max_size_mb) =>
                sp_output_files[Len(sp_output_files)].last >= m[1]

\* Part 1 of the run holds pages 1-13.
FirstPartThirteen ==
    /\ sp_output_files # <<>>
    /\ sp_output_files[1].first = 0
    /\ sp_output_files[1].last = 13

C23_LegacySplitReturns ==
    (flat_code_files # <<>> /\ max_pdf_size_mb # <<>> /\ max_pdf_size_mb[1] > 0) =>
        /\ g_pc # "raised"
        /\ g_pc = "returned" => g_result.kind = "list"

(***************************************************************************)
(* Claims about the progress channel                                       *)
(***************************************************************************)

\* C24: with a second upload made while the worker of the first is running,
\* the observer of an upload is sent only the updates of that upload's
\* worker, and its stream ends only on that worker's terminal update.
C24_ChannelIsolation ==
    \A j \in Jobs :
        \A k \in 1..Len(received[j]) : received[j][k] = j

\* What the registry holds under the identifier of an announcement when it
\* maps it to the announced artifact.
AnnouncedEntry(a) == <<[owner |-> a.from, name |-> ArtifactName(a.kind)]>>

\* C28: when a terminal update with a download_url is enqueued the registry
\* already maps the identifier it names to the artifact it announces, and at
\* any later time a download request for that identifier finds it known.
C28_RegistryBeforeAnnouncement ==
    /\ [][\A a \in announced' \ announced :
             download_files'[<<a.id, "out">>] = AnnouncedEntry(a)]_vars
    /\ [](\A a \in announced : download_files[<<a.id, "out">>] # <<>>)

(***************************************************************************)
(* Claims about the content of the bins and the fallback                   *)
(***************************************************************************)

\* C25: every bin the packer closes and builds holds at least one unit; an
\* artifact of the header and the part banner only, or of notices of errors
\* only, is never emitted, also when processing a unit raised and only its
\* warning is in the bin.
C25_NoEmptyArtifact ==
    \A k \in 1..Len(bins) :
        bins[k].built => Len(Units(bins[k])) >= 1

\* A build of some bin of some category failed.
SomeBuildFailed ==
    \E j \in 1..Len(g_bins) :
        \E b \in 1..Len(g_bins[j].bins) : ~g_bins[j].bins[b].built

\* The number of files of the selected categories.
SelectedFiles == TotalFiles(FilteredCategories(form, file_categories))

\* C29: the worker delivers the text files only in the runs where a build
\* failed or generate_pdf raised; a job whose selected categories are all empty
\* ends as 'no files to process' and does not take the fallback.
C29_FallbackOnlyAfterFailure ==
    /\ job_pc = "text_files" => (g_pc = "raised" \/ SomeBuildFailed)
    /\ (JobEnded /\ SelectedFiles = 0 /\ job_pc # "failed") => job_pc = "no_files"

\* C30: under a positive budget below the header overhead plus the minimum
\* estimate of a unit, a packer run that returns has closed one bin for each
\* unit: every bin holds exactly one unit and there are as many bins as units.
C30_OneUnitPerBin ==
    (pk_pc = "returned" /\ max_size_bytes < HeaderOverhead + MIN_FILE_CONTRIBUTION) =>
        /\ \A k \in 1..Len(bins) : Len(Units(bins[k])) = 1
        /\ Len(bins) = Len(files)

(***************************************************************************)
(* Claims about the terminal update of the worker                          *)
(***************************************************************************)

\* C26: on every path the worker enqueues exactly one update with
\* complete = True, the last it enqueues, also when the build of the single
\* document fails.
C26_SingleTerminalEvent ==
    /\ Len(progress_queue) <= 1
    /\ JobEnded => Len(progress_queue) = 1

====
